---- MODULE Spec2Model ----
(***************************************************************************)
(* A model of the NPE quiz (src/app.py): the bank validator                *)
(* clean_and_validate, the item builder prepare_items, the session state   *)
(* machine of main (start quiz, submit answer, restart) and the flag sink  *)
(* append_flag_to_sheet.                                                   *)
(*                                                                         *)
(* Text is a sequence of one-character strings, so that strip, upper,      *)
(* lower, the whitespace regex and startswith are computed the way Python  *)
(* computes them.  NaN is the float pandas puts in an empty CSV cell.      *)
(* The Explanation column and the timestamps take no part in any decision  *)
(* of the code and are left out.  No cell of the input holds a number.     *)
(***************************************************************************)
EXTENDS Integers, Sequences, FiniteSets, TLC

VARIABLES
    raw,            \* the DataFrame handed to clean_and_validate: [cols, rows]
    phase,          \* "loaded" | "validated" | "crashed"
    df,             \* df_ok, the clean record sequence
    issues,         \* the (row index, message) pairs of clean_and_validate
    num_questions,  \* st.session_state.num_questions (sidebar number_input)
    domain_choice,  \* st.session_state.domain_choice (sidebar multiselect)
    items,          \* st.session_state.items
    index,          \* st.session_state.index
    score,          \* st.session_state.score
    results,        \* st.session_state.results
    config,         \* what the deployment has: "no_lib" | "no_secrets" | "configured"
    ws_cache,       \* st.cache_resource entry of get_flags_worksheet
    sheet,          \* the remote "flags" worksheet: [exists, rows]
    op              \* the handler that ran last, and what it returned

vars == <<raw, phase, df, issues, num_questions, domain_choice, items, index,
          score, results, config, ws_cache, sheet, op>>

----------------------------------------------------------------------------
(* Bounds of the model.                                                    *)

MaxRows == 2
MaxOptTexts == 5
MaxNum == 2
MaxSessionTexts == 4
MaxFlags == 2

----------------------------------------------------------------------------
(* Text.                                                                   *)

NaN == <<"NaN">>

LowerLetters == <<"a","b","c","d","e","f","g","h","i","j","k","l","m",
                  "n","o","p","q","r","s","t","u","v","w","x","y","z">>
UpperLetters == <<"A","B","C","D","E","F","G","H","I","J","K","L","M",
                  "N","O","P","Q","R","S","T","U","V","W","X","Y","Z">>

IsSpace(ch) == ch \in {" ", "\t"}

UpperChar(ch) ==
    IF \E i \in 1..26 : LowerLetters[i] = ch
    THEN UpperLetters[CHOOSE i \in 1..26 : LowerLetters[i] = ch]
    ELSE ch

LowerChar(ch) ==
    IF \E i \in 1..26 : UpperLetters[i] = ch
    THEN LowerLetters[CHOOSE i \in 1..26 : UpperLetters[i] = ch]
    ELSE ch

Upper(s) == [i \in 1..Len(s) |-> UpperChar(s[i])]

Lower(s) == [i \in 1..Len(s) |-> LowerChar(s[i])]

RECURSIVE LStrip(_)
LStrip(s) ==
    IF s # <<>> /\ IsSpace(Head(s)) THEN LStrip(Tail(s)) ELSE s

RECURSIVE RStrip(_)
RStrip(s) ==
    IF s # <<>> /\ IsSpace(s[Len(s)]) THEN RStrip(SubSeq(s, 1, Len(s) - 1)) ELSE s

Strip(s) == RStrip(LStrip(s))

\* str.replace(r"\s+", " ", regex=True): every run of whitespace becomes one space
RECURSIVE CollapseWs(_)
CollapseWs(s) ==
    IF s = <<>> THEN <<>>
    ELSE IF IsSpace(Head(s))
         THEN <<" ">> \o CollapseWs(LStrip(s))
         ELSE <<Head(s)>> \o CollapseWs(Tail(s))

StartsWith(s, p) == Len(s) >= Len(p) /\ SubSeq(s, 1, Len(p)) = p

\* str.title() of a word: first letter upper-cased, the rest lower-cased
Title(s) ==
    [i \in 1..Len(s) |-> IF i = 1 \/ ~(\E k \in 1..26 : s[i-1] \in {LowerLetters[k], UpperLetters[k]})
                         THEN UpperChar(s[i]) ELSE LowerChar(s[i])]

\* str(x): a float NaN prints as "nan", a str is itself
Str(c) == IF c = NaN THEN <<"n","a","n">> ELSE c

\* Python truthiness of a cell: NaN is a non-zero float, hence true
Truthy(c) == c # <<>>

\* (x or "")
OrEmpty(c) == IF Truthy(c) THEN c ELSE <<>>

----------------------------------------------------------------------------
(* Configuration.                                                          *)

LABELS == <<"A", "B", "C", "D", "E">>

OptCol(lab) == "Option_" \o lab

REQUIRED_COLS == {"Question", "Option_A", "Option_B", "Option_C", "Option_D",
                  "Option_E", "Correct_Answer", "Domain"}

ALL == <<"A","l","l">>
ETHICS == <<"E","t","h","i","c","s">>
ASSESSMENT == <<"A","s","s","e","s","s","m","e","n","t">>
INTERVENTIONS == <<"I","n","t","e","r","v","e","n","t","i","o","n","s">>
COMMUNICATION == <<"C","o","m","m","u","n","i","c","a","t","i","o","n">>

DOMAIN_OPTIONS == {ALL, ETHICS, ASSESSMENT, INTERVENTIONS, COMMUNICATION}

CANON_DOMAINS == {d \in DOMAIN_OPTIONS : d # ALL}

----------------------------------------------------------------------------
(* Data loading and validation.                                            *)

\* df[c].dtype == object: pandas gives a column holding at least one str (or
\* no row at all) the object dtype, and a column of empty cells only float64
IsObject(frame, c) ==
    frame.rows = <<>> \/ \E i \in 1..Len(frame.rows) : frame.rows[i][c] # NaN

\* for c in REQUIRED_COLS: if c not in df.columns: df[c] = ""
EnsureColumns(frame) ==
    [cols |-> frame.cols \cup REQUIRED_COLS,
     rows |-> [i \in 1..Len(frame.rows) |->
                 [c \in frame.cols \cup REQUIRED_COLS |->
                     IF c \in frame.cols THEN frame.rows[i][c] ELSE <<>>]]]

\* .astype(str).str.replace(r"\s+", " ", regex=True).str.strip(), then
\* .replace({"nan": ""})
NormCell(c) ==
    LET s == Strip(CollapseWs(Str(c)))
    IN  IF s = <<"n","a","n">> THEN <<>> ELSE s

\* the loop over df.columns: only object columns are normalised
Normalise(frame) ==
    [cols |-> frame.cols,
     rows |-> [i \in 1..Len(frame.rows) |->
                 [c \in frame.cols |->
                     IF IsObject(frame, c) THEN NormCell(frame.rows[i][c])
                     ELSE frame.rows[i][c]]]]

\* _canon_domain on a str
canon_domain(val) ==
    LET v == Lower(Strip(OrEmpty(val)))
    IN  IF v = <<>> THEN <<>>
        ELSE IF StartsWith(v, <<"e","t","h","i","c">>) THEN ETHICS
        ELSE IF StartsWith(v, <<"a","s","s","e","s","s">>) THEN ASSESSMENT
        ELSE IF \/ StartsWith(v, <<"i","n","t","e","r","v","e","n">>)
                \/ StartsWith(v, <<"t","r","e","a","t">>)
                \/ StartsWith(v, <<"t","h","e","r","a","p","y">>) THEN INTERVENTIONS
        ELSE IF StartsWith(v, <<"c","o","m","m">>) THEN COMMUNICATION
        ELSE IF \E d \in CANON_DOMAINS : Lower(d) = v
             THEN CHOOSE d \in CANON_DOMAINS : Lower(d) = v
        ELSE <<>>

\* df["Domain"].apply(_canon_domain) raises AttributeError when a cell is the
\* float NaN: (val or "") is val, and a float has no strip()
CanonRaises(frame) ==
    \E i \in 1..Len(frame.rows) : frame.rows[i]["Domain"] = NaN

CanonDomains(frame) ==
    [cols |-> frame.cols,
     rows |-> [i \in 1..Len(frame.rows) |->
                 [frame.rows[i] EXCEPT !["Domain"] = canon_domain(@)]]]

\* the head of the row loop calls .strip() on Correct_Answer and on the five
\* options; q.lower() is reached when q is NaN, which is not falsy
RowRaises(r) ==
    \/ r["Correct_Answer"] = NaN
    \/ \E k \in 1..5 : r[OptCol(LABELS[k])] = NaN
    \/ r["Question"] = NaN

\* ca = (r.get("Correct_Answer", "") or "").strip().upper()
CorrectLetter(r) == Upper(Strip(OrEmpty(r["Correct_Answer"])))

\* opts[lab] = r.get(f"Option_{lab}", "").strip()
OptText(r, lab) == Strip(r[OptCol(lab)])

IsLabel(ca) == \E k \in 1..5 : ca = <<LABELS[k]>>

\* if ca not in list("ABCDE") ... if not opts.get(ca) ...
AnswerOk(r) ==
    LET ca == CorrectLetter(r)
    IN  IsLabel(ca) /\ OptText(r, ca[1]) # <<>>

\* "for i, r in df.iterrows()" from the i-th row on (pandas numbers the rows
\* from 0, so the issue of the i-th row carries i - 1); st carries ok_rows,
\* issues, seen_stems and whether an exception left the loop
RECURSIVE RowLoop(_, _, _)
RowLoop(frame, i, st) ==
    IF i > Len(frame.rows) \/ st.raised THEN st
    ELSE LET r == frame.rows[i]
             q == r["Question"]
             k == Lower(q)
             dup == k \in st.seen_stems
             isd == IF dup THEN <<<<i - 1, "Duplicate Question stem">>>> ELSE <<>>
         IN  IF RowRaises(r) THEN [st EXCEPT !.raised = TRUE]
             ELSE IF q = <<>>
             THEN RowLoop(frame, i + 1,
                    [st EXCEPT !.issues = @ \o <<<<i - 1, "Missing Question">>>>])
             ELSE IF ~IsLabel(CorrectLetter(r))
             THEN RowLoop(frame, i + 1,
                    [st EXCEPT !.issues = @ \o isd \o <<<<i - 1, "Correct_Answer not in A-E">>>>,
                               !.seen_stems = @ \cup {k}])
             ELSE IF ~AnswerOk(r)
             THEN RowLoop(frame, i + 1,
                    [st EXCEPT !.issues = @ \o isd \o
                                   <<<<i - 1, "Correct_Answer points to empty/missing option">>>>,
                               !.seen_stems = @ \cup {k}])
             ELSE RowLoop(frame, i + 1,
                    [st EXCEPT !.issues = @ \o isd,
                               !.seen_stems = @ \cup {k},
                               !.ok_rows = Append(@, i)])

\* clean_and_validate: [raised, df_ok, issues, ok_rows]
clean_and_validate(frame) ==
    LET f1 == Normalise(EnsureColumns(frame))
        f2 == CanonDomains(f1)
        st == RowLoop(f2, 1, [ok_rows |-> <<>>, issues |-> <<>>,
                              seen_stems |-> {}, raised |-> FALSE])
    IN  IF CanonRaises(f1)
        THEN [raised |-> TRUE, df_ok |-> <<>>, issues |-> <<>>, ok_rows |-> <<>>]
        ELSE [raised |-> st.raised,
              df_ok |-> IF st.raised THEN <<>>
                        ELSE [j \in 1..Len(st.ok_rows) |-> f2.rows[st.ok_rows[j]]],
              issues |-> IF st.raised THEN <<>> ELSE st.issues,
              ok_rows |-> IF st.raised THEN <<>> ELSE st.ok_rows]

----------------------------------------------------------------------------
(* The input tables the model draws from.                                  *)

QuestionCells == {NaN, <<"q">>, <<"Q", " ">>}

AnswerCells == {NaN, <<"a">>, <<" ", "e">>, <<"C">>, <<"F">>}

\* one option text in A and whitespace elsewhere; the spec's x,-,y,-,z
\* record; five texts, two of them equal; no text at all
OptionPatterns ==
    { [A |-> <<"x">>, B |-> <<" ">>, C |-> <<" ">>, D |-> <<"\t", " ">>, E |-> <<" ">>],
      [A |-> <<"x">>, B |-> NaN, C |-> <<"y", " ">>, D |-> NaN, E |-> <<"z">>],
      [A |-> <<"x">>, B |-> <<"x">>, C |-> <<"y", " ", " ", "y">>, D |-> <<"z">>, E |-> <<" ", "w">>],
      [A |-> <<" ", "n", "a", "n">>, B |-> NaN, C |-> NaN, D |-> NaN, E |-> NaN] }

\* the Domain cell that goes with an option pattern
DomainCell(pat) ==
    IF pat.B = <<" ">> THEN <<"T","h","e","r","a","p","y">>
    ELSE IF pat.B = <<"x">> THEN NaN
    ELSE IF pat.E = <<"z">> THEN <<"e","t","h","i","c","a","l">>
    ELSE <<"E","T","H","I","C","S"," ">>

MakeRow(q, ca, pat) ==
    [c \in REQUIRED_COLS |->
        CASE c = "Question" -> q
          [] c = "Correct_Answer" -> ca
          [] c = "Domain" -> DomainCell(pat)
          [] c = "Option_A" -> pat.A
          [] c = "Option_B" -> pat.B
          [] c = "Option_C" -> pat.C
          [] c = "Option_D" -> pat.D
          [] c = "Option_E" -> pat.E]

RowPool == {MakeRow(q, ca, pat) : q \in QuestionCells, ca \in AnswerCells,
                                  pat \in OptionPatterns}

\* the rows with a question and an answer letter the bank is built from
BankPool ==
    {r \in RowPool : r["Question"] = <<"q">> /\ r["Correct_Answer"] \in {<<"a">>, <<" ", "e">>}}

\* the column sets of the input: every required column, or a file without
\* the Option_B, Option_D and Domain columns
ColumnSets == {REQUIRED_COLS, REQUIRED_COLS \ {"Option_B", "Option_D", "Domain"}}

SeqsUpTo(S, n) == UNION {[1..m -> S] : m \in 0..n}

Restrict(r, cols) == [c \in cols |-> r[c]]

MakeFrame(cols, rows) ==
    [cols |-> cols, rows |-> [i \in 1..Len(rows) |-> Restrict(rows[i], cols)]]

\* the number of option cells of a frame that hold text
OptTexts(frame) ==
    Cardinality({<<i, c>> \in (1..Len(frame.rows)) \X (frame.cols \ {"Question", "Correct_Answer", "Domain"}) :
                    NormCell(frame.rows[i][c]) # <<>>})

Frames(pool, maxRows, maxTexts) ==
    {f \in {MakeFrame(cols, rows) : cols \in ColumnSets, rows \in SeqsUpTo(pool, maxRows)} :
        OptTexts(f) <= maxTexts}

NoSheet == [exists |-> FALSE, rows |-> <<>>]

HEADER == <<"ts", "session_id", "domain", "question_hash", "question">>

NoOp == [name |-> "init", ret |-> "-"]

InitRest ==
    /\ phase = "loaded"
    /\ df = <<>>
    /\ issues = <<>>
    /\ num_questions = MaxNum    \* value=10 in the code: more than any bank here
    /\ domain_choice = {ALL}
    /\ items = <<>>
    /\ index = 0
    /\ score = 0
    /\ results = <<>>
    /\ ws_cache = "unset"
    /\ op = NoOp

\* main, line 296: df, issues, missing_report = clean_and_validate(df_raw)
Validate ==
    /\ phase = "loaded"
    /\ LET out == clean_and_validate(raw)
       IN  /\ phase' = IF out.raised THEN "crashed" ELSE "validated"
           /\ df' = out.df_ok
           /\ issues' = out.issues
           /\ op' = [name |-> "clean_and_validate",
                     ret |-> IF out.raised THEN "raised" ELSE "ok"]
    /\ UNCHANGED <<raw, num_questions, domain_choice, items, index, score,
                   results, config, ws_cache, sheet>>

InitValidate ==
    /\ raw \in Frames(RowPool, MaxRows, 5 * MaxRows)
    /\ InitRest
    /\ config = "no_lib"
    /\ sheet = NoSheet

SpecValidate == InitValidate /\ [][Validate]_vars

----------------------------------------------------------------------------
(* Item preparation.                                                       *)

None == "None"

\* the domain filter of prepare_items
FilterDomain(d, domains) ==
    IF domains # {} /\ ALL \notin {Title(x) : x \in domains}
    THEN SelectSeq(d, LAMBDA r : Lower(r["Domain"]) \in {Lower(x) : x \in domains})
    ELSE d

\* ClipNum clipping one short
ClipNumOneShort(num, avail) == IF num >= avail THEN avail - 1 ELSE num

\* if num > len(df): num = len(df)
ClipNum(num, avail) == IF num > avail THEN avail ELSE num

\* df.sample(n=num): num distinct rows, in any order
Samples(avail, num) ==
    {s \in [1..num -> 1..avail] : \A i, j \in 1..num : i # j => s[i] # s[j]}

\* orig: the (label, text) pairs of the options with text, in A-E order
OrigOptions(r) ==
    LET all == [k \in 1..5 |-> <<LABELS[k], Strip(Str(r[OptCol(LABELS[k])]))>>]
    IN  SelectSeq(all, LAMBDA p : p[2] # <<>>)

\* Shuffles drawing with replacement (random.choices for random.shuffle)
ShufflesWithReplacement(orig) ==
    LET n == Len(orig)
    IN  {[j \in 1..n |-> orig[f[j]]] : f \in [1..n -> 1..n]}

\* random.shuffle(orig): any rearrangement
Shuffles(orig) ==
    LET n == Len(orig)
    IN  {[j \in 1..n |-> orig[f[j]]] :
            f \in {g \in [1..n -> 1..n] : \A i, j \in 1..n : i # j => g[i] # g[j]}}

\* Display keeping each option's original letter as its display letter
DisplayOrigLetters(shuffled) ==
    [j \in 1..Len(shuffled) |->
        [disp_lab |-> shuffled[j][1], orig_lab |-> shuffled[j][1], text |-> shuffled[j][2]]]

\* disp: zip(display_labels, orig)
Display(shuffled) ==
    [j \in 1..Len(shuffled) |->
        [disp_lab |-> LABELS[j], orig_lab |-> shuffled[j][1], text |-> shuffled[j][2]]]

\* CorrectDisp without the .upper() of line 214
CorrectDispNoUpper(r, disp) ==
    LET orig_correct == OrEmpty(r["Correct_Answer"])
        hits == {j \in 1..Len(disp) : <<disp[j].orig_lab>> = orig_correct}
    IN  IF hits = {} THEN None
        ELSE disp[CHOOSE j \in hits : \A k \in hits : j <= k].disp_lab

\* next((d["disp_lab"] for d in disp if d["orig_lab"] == orig_correct), None)
CorrectDisp(r, disp) ==
    LET orig_correct == Upper(OrEmpty(r["Correct_Answer"]))
        hits == {j \in 1..Len(disp) : <<disp[j].orig_lab>> = orig_correct}
    IN  IF hits = {} THEN None
        ELSE disp[CHOOSE j \in hits : \A k \in hits : j <= k].disp_lab

BuildItem(r, shuffled) ==
    LET disp == Display(shuffled)
    IN  [row |-> r, disp |-> disp, correct_disp |-> CorrectDisp(r, disp)]

\* the items that the loop over the sampled rows can build
RECURSIVE ItemSeqs(_)
ItemSeqs(rows) ==
    IF rows = <<>> THEN {<<>>}
    ELSE {<<BuildItem(Head(rows), sh)>> \o rest :
             sh \in Shuffles(OrigOptions(Head(rows))), rest \in ItemSeqs(Tail(rows))}

\* prepare_items(df, domains, num): every list of items it can return
prepare_items(d, domains, num) ==
    LET f == FilterDomain(d, domains)
        n == ClipNum(num, Len(f))
    IN  IF f = <<>> THEN {<<>>}
        ELSE UNION {ItemSeqs([j \in 1..n |-> f[s[j]]]) : s \in Samples(Len(f), n)}

----------------------------------------------------------------------------
(* Session handlers.                                                       *)

DomainChoices == {{}, {ALL}, {ETHICS, COMMUNICATION}, {ALL, ETHICS}}

\* the sidebar number_input, key num_questions (min_value 1)
SetNumQuestions ==
    /\ \E n \in 1..MaxNum : n # num_questions /\ num_questions' = n
    /\ op' = [name |-> "num_questions", ret |-> "-"]
    /\ UNCHANGED <<raw, phase, df, issues, domain_choice, items, index, score,
                   results, config, ws_cache, sheet>>

\* the sidebar multiselect, key domain_choice
SetDomainChoice ==
    /\ \E c \in DomainChoices : c # domain_choice /\ domain_choice' = c
    /\ op' = [name |-> "domain_choice", ret |-> "-"]
    /\ UNCHANGED <<raw, phase, df, issues, num_questions, items, index, score,
                   results, config, ws_cache, sheet>>

\* start_quiz, the on_click of "Start quiz"
StartQuiz ==
    /\ phase = "validated"
    /\ score' = 0
    /\ index' = 0
    /\ results' = <<>>
    /\ items' \in prepare_items(df, domain_choice, num_questions)
    /\ op' = [name |-> "start_quiz", ret |-> "-"]
    /\ UNCHANGED <<raw, phase, df, issues, num_questions, domain_choice,
                   config, ws_cache, sheet>>

\* the item builder applied once to a validated bank, under the domain filter
\* and the count drawn with the table
PrepareOnce == op.name = "clean_and_validate" /\ StartQuiz

InitBank ==
    /\ raw \in Frames(BankPool, MaxRows, MaxOptTexts)
    /\ phase = "loaded"
    /\ df = <<>>
    /\ issues = <<>>
    /\ num_questions \in 1..MaxNum
    /\ domain_choice \in DomainChoices
    /\ items = <<>>
    /\ index = 0
    /\ score = 0
    /\ results = <<>>
    /\ config = "no_lib"
    /\ ws_cache = "unset"
    /\ sheet = NoSheet
    /\ op = NoOp

NextBank == Validate \/ PrepareOnce

SpecBank == InitBank /\ [][NextBank]_vars

----------------------------------------------------------------------------
(* The quiz screen of main.                                                *)

\* which page main renders: "if not items", "if idx >= total", else the quiz
Screen ==
    IF items = <<>> THEN "landing"
    ELSE IF index >= Len(items) THEN "summary"
    ELSE "quiz"

\* display_choices = [f"{d['disp_lab']}. {d['text']}" for d in disp]
DisplayChoice(d) == <<d.disp_lab, ".", " ">> \o d.text

\* choice.split(".", 1)[0]
RECURSIVE BeforeDot(_)
BeforeDot(s) ==
    IF s = <<>> \/ Head(s) = "." THEN <<>> ELSE <<Head(s)>> \o BeforeDot(Tail(s))

ChosenLab(choice) == Strip(BeforeDot(choice))

\* is_correct = (chosen_lab == (correct_disp or ""))
IsCorrect(chosen_lab, correct_disp) ==
    chosen_lab = (IF correct_disp = None THEN <<>> ELSE <<correct_disp>>)

\* ScoreAfter counting every submission
ScoreAfterAny(s, is_correct) == s + 1

\* ScoreAfter with a penalty for a wrong answer
ScoreAfterPenalty(s, is_correct) == IF is_correct THEN s + 1 ELSE s - 1

\* st.session_state.score += 1, on a correct answer only
ScoreAfter(s, is_correct) == IF is_correct THEN s + 1 ELSE s

\* next((d["text"] for d in disp if d["disp_lab"] == lab), "")
TextOf(disp, lab) ==
    LET hits == {j \in 1..Len(disp) : <<disp[j].disp_lab>> = lab}
    IN  IF hits = {} THEN <<>>
        ELSE disp[CHOOSE j \in hits : \A k \in hits : j <= k].text

\* the record appended to results (its timestamp and explanation left out)
ResultRecord(item, chosen_lab) ==
    [domain |-> item.row["Domain"],
     question |-> item.row["Question"],
     chosen_label |-> chosen_lab,
     chosen_text |-> TextOf(item.disp, chosen_lab),
     correct_label |-> IF item.correct_disp # None THEN <<item.correct_disp>>
                       ELSE item.row["Correct_Answer"],
     correct_text |-> IF item.correct_disp = None THEN <<>>
                      ELSE TextOf(item.disp, <<item.correct_disp>>),
     is_correct |-> IF IsCorrect(chosen_lab, item.correct_disp) THEN 1 ELSE 0]

\* SubmitEmpty without the return after the warning: the quiz moves on
SubmitEmptyAdvances ==
    /\ Screen = "quiz"
    /\ index' = index + 1
    /\ op' = [name |-> "submit_empty", ret |-> "-"]
    /\ UNCHANGED <<raw, phase, df, issues, num_questions, domain_choice, items,
                   score, results, config, ws_cache, sheet>>

\* "Submit answer" with no radio option selected: the warning, and return
SubmitEmpty ==
    /\ Screen = "quiz"
    /\ op' = [name |-> "submit_empty", ret |-> "-"]
    /\ UNCHANGED <<raw, phase, df, issues, num_questions, domain_choice, items,
                   index, score, results, config, ws_cache, sheet>>

\* "Submit answer" with one of the displayed options selected
Submit ==
    /\ Screen = "quiz"
    /\ \E j \in 1..Len(items[index + 1].disp) :
          LET item == items[index + 1]
              chosen_lab == ChosenLab(DisplayChoice(item.disp[j]))
          IN  /\ score' = ScoreAfter(score, IsCorrect(chosen_lab, item.correct_disp))
              /\ results' = Append(results, ResultRecord(item, chosen_lab))
              /\ index' = index + 1
    /\ op' = [name |-> "submit", ret |-> "-"]
    /\ UNCHANGED <<raw, phase, df, issues, num_questions, domain_choice, items,
                   config, ws_cache, sheet>>

\* restart_quiz without the reset of index
RestartKeepsIndex ==
    /\ Screen = "summary"
    /\ items' = <<>>
    /\ score' = 0
    /\ results' = <<>>
    /\ op' = [name |-> "restart_quiz", ret |-> "-"]
    /\ UNCHANGED <<raw, phase, df, issues, num_questions, domain_choice, index,
                   config, ws_cache, sheet>>

\* restart_quiz, behind the "Restart" button of the summary page
Restart ==
    /\ Screen = "summary"
    /\ items' = <<>>
    /\ index' = 0
    /\ score' = 0
    /\ results' = <<>>
    /\ op' = [name |-> "restart_quiz", ret |-> "-"]
    /\ UNCHANGED <<raw, phase, df, issues, num_questions, domain_choice,
                   config, ws_cache, sheet>>

----------------------------------------------------------------------------
(* Google Sheets helpers.                                                  *)

\* where a call of the remote service can fail
Faults == {"none", "credentials", "open", "worksheet", "add_worksheet",
           "header", "append"}

\* get_flags_worksheet under @st.cache_resource: a returned value (None too)
\* is cached, a raised exception is not.  [ret, cache, sheet]
get_flags_worksheet(fault) ==
    IF ws_cache # "unset" THEN [ret |-> ws_cache, cache |-> ws_cache, sheet |-> sheet]
    ELSE IF config = "no_lib" \/ config = "no_secrets"
    THEN [ret |-> None, cache |-> None, sheet |-> sheet]
    ELSE IF fault \in {"credentials", "open", "worksheet"}
    THEN [ret |-> "raised", cache |-> "unset", sheet |-> sheet]
    ELSE IF sheet.exists
    THEN [ret |-> "ws", cache |-> "ws", sheet |-> sheet]
    ELSE IF fault = "add_worksheet"
    THEN [ret |-> "raised", cache |-> "unset", sheet |-> sheet]
    ELSE IF fault = "header"
    THEN [ret |-> "raised", cache |-> "unset",
          sheet |-> [exists |-> TRUE, rows |-> <<>>]]
    ELSE [ret |-> "ws", cache |-> "ws",
          sheet |-> [exists |-> TRUE, rows |-> <<HEADER>>]]

\* append_flag_to_sheet(domain, question): [ret, cache, sheet], ret being
\* "raised" or the message of the (ok, message) pair
append_flag_to_sheet(domain, question, fault) ==
    LET g == get_flags_worksheet(fault)
    IN  IF g.ret = "raised" THEN g
        ELSE IF g.ret = None
        THEN [g EXCEPT !.ret = "Google Sheets not configured."]
        ELSE IF fault = "append"
        THEN [g EXCEPT !.ret = "Append failed"]
        ELSE [g EXCEPT !.ret = "Saved to Google Sheet.",
                       !.sheet.rows = Append(@, <<OrEmpty(domain), OrEmpty(question)>>)]

\* "Flag inaccurate" next to the i-th reviewed result (render_review)
Flag ==
    /\ Screen = "summary"
    /\ Len(sheet.rows) <= MaxFlags
    /\ \E i \in 1..Len(results), fault \in Faults :
          LET out == append_flag_to_sheet(results[i].domain, results[i].question, fault)
          IN  /\ ws_cache' = out.cache
              /\ sheet' = out.sheet
              /\ op' = [name |-> "flag", ret |-> out.ret]
    /\ UNCHANGED <<raw, phase, df, issues, num_questions, domain_choice, items,
                   index, score, results, config>>

----------------------------------------------------------------------------
(* The session.                                                            *)

\* the one-text rows, and the three-text row answered "e"
SessionPool ==
    {r \in BankPool : \/ r["Option_B"] = <<" ">>
                      \/ r["Option_E"] = <<"z">> /\ r["Correct_Answer"] = <<" ", "e">>}

Init ==
    /\ raw \in Frames(SessionPool, MaxRows, MaxSessionTexts)
    /\ InitRest
    /\ config = "no_lib"
    /\ sheet = NoSheet

Next ==
    \/ Validate
    \/ SetNumQuestions
    \/ SetDomainChoice
    \/ StartQuiz
    \/ SubmitEmpty
    \/ Submit
    \/ Restart

Spec == Init /\ [][Next]_vars

\* the session with the flag sink, on the one-row banks
InitFlag ==
    /\ raw \in Frames(SessionPool, 1, MaxSessionTexts)
    /\ InitRest
    /\ config \in {"no_lib", "no_secrets", "configured"}
    /\ sheet \in {NoSheet, [exists |-> TRUE, rows |-> <<HEADER>>]}

NextFlag ==
    \/ Validate
    \/ StartQuiz
    \/ SubmitEmpty
    \/ Submit
    \/ Restart
    \/ Flag

SpecFlag == InitFlag /\ [][NextFlag]_vars

----------------------------------------------------------------------------
(* Properties.                                                             *)

\* a cell as the validator is specified to read it: whitespace collapsed and
\* trimmed, a missing cell or the text "nan" empty
CleanCell(frame, i, c) ==
    IF c \in frame.cols THEN NormCell(frame.rows[i][c]) ELSE <<>>

CleanLetter(frame, i) == Upper(CleanCell(frame, i, "Correct_Answer"))

\* the acceptance rule: a question, a letter A-E, text in the option it names
Acceptable(frame, i) ==
    /\ CleanCell(frame, i, "Question") # <<>>
    /\ \E k \in 1..5 : /\ CleanLetter(frame, i) = <<LABELS[k]>>
                       /\ CleanCell(frame, i, OptCol(LABELS[k])) # <<>>

AcceptableRows(frame) ==
    SelectSeq([i \in 1..Len(frame.rows) |-> i], LAMBDA i : Acceptable(frame, i))

SameRecord(frame, i, r) ==
    \A c \in REQUIRED_COLS \ {"Domain"} : r[c] = CleanCell(frame, i, c)

\* what clean_and_validate answers whenever it returns
ValidatedKeepsAcceptableRows ==
    phase = "validated" =>
        /\ Len(df) = Len(AcceptableRows(raw))
        /\ \A j \in 1..Len(df) : SameRecord(raw, AcceptableRows(raw)[j], df[j])

\* C1: for every input table clean_and_validate keeps a row in the clean
\* record set exactly when its Question is non-empty, its upper-cased
\* Correct_Answer is one of A-E and the option at that letter has text; a
\* row whose only anomaly is a duplicate stem is kept.
C1_KeepsExactlyAcceptableRows ==
    phase # "loaded" =>
        /\ Len(df) = Len(AcceptableRows(raw))
        /\ \A j \in 1..Len(df) : SameRecord(raw, AcceptableRows(raw)[j], df[j])

\* the display options of an item that carry its correct label
CorrectOptions(item) ==
    {j \in 1..Len(item.disp) : item.disp[j].disp_lab = item.correct_disp}

\* C2 as stated: for every accepted record and every shuffle, correct_disp
\* is defined and the option carrying it has text and an original letter
\* equal to the record's Correct_Answer.
C2_CorrectDispIsRecordAnswer ==
    \A n \in 1..Len(items) :
        /\ items[n].correct_disp # None
        /\ \E j \in CorrectOptions(items[n]) :
              /\ items[n].disp[j].text # <<>>
              /\ <<items[n].disp[j].orig_lab>> = items[n].row["Correct_Answer"]

\* C2 amended: for every accepted record and every shuffle, correct_disp is
\* defined and the option carrying it has text and an original letter equal
\* to the record's upper-cased Correct_Answer.
C2_CorrectDispIsUpperCasedAnswer ==
    \A n \in 1..Len(items) :
        /\ items[n].correct_disp # None
        /\ \E j \in CorrectOptions(items[n]) :
              /\ items[n].disp[j].text # <<>>
              /\ <<items[n].disp[j].orig_lab>> = Upper(items[n].row["Correct_Answer"])

\* an item of a record answered in lower case, its correct option moved
C2_Witness ==
    \E n \in 1..Len(items) :
        /\ items[n].row["Correct_Answer"] = <<"e">>
        /\ Len(items[n].disp) = 5
        /\ items[n].correct_disp = "B"

\* the labels of the options of a record that have text
TextLabels(r) == {k \in 1..5 : r[OptCol(LABELS[k])] # <<>>}

\* C3: for a record with exactly k non-empty options (1 <= k <= 5) and every
\* shuffle, the display letters of the item are the first k letters of A-E,
\* in order, each used once.
C3_DisplayLettersDense ==
    \A n \in 1..Len(items) :
        LET k == Cardinality(TextLabels(items[n].row))
        IN  /\ Len(items[n].disp) = k
            /\ \A j \in 1..k : items[n].disp[j].disp_lab = LABELS[j]

\* a three-option record (A, C, E) shown with its last option first
C3_Witness ==
    \E n \in 1..Len(items) :
        /\ TextLabels(items[n].row) = {1, 3, 5}
        /\ items[n].disp[1].orig_lab = "E"
        /\ items[n].disp[3].disp_lab = "C"

\* how often the pair (original letter, text) occurs among the options shown
ShownCount(item, lab, txt) ==
    Cardinality({j \in 1..Len(item.disp) :
                    item.disp[j].orig_lab = lab /\ item.disp[j].text = txt})

\* how often it occurs among the record's options that have text
RecordCount(r, lab, txt) ==
    Cardinality({k \in TextLabels(r) : LABELS[k] = lab /\ r[OptCol(LABELS[k])] = txt})

\* C4: for every record and every shuffle, the multiset of (original letter,
\* text) pairs shown in the item equals that of the record's non-empty
\* options.
C4_OptionsArePermuted ==
    \A n \in 1..Len(items) :
        /\ Len(items[n].disp) = Cardinality(TextLabels(items[n].row))
        /\ \A k \in 1..5, j \in 1..5 :
              LET lab == LABELS[k]
                  txt == items[n].row[OptCol(LABELS[j])]
              IN  ShownCount(items[n], lab, txt) = RecordCount(items[n].row, lab, txt)

\* a five-option record with a repeated text, shown in reverse order
C4_Witness ==
    \E n \in 1..Len(items) :
        /\ Len(items[n].disp) = 5
        /\ items[n].disp[1].orig_lab = "E"
        /\ items[n].disp[4].text = items[n].disp[5].text
        /\ items[n].disp[5].orig_lab = "A"

\* the records left by the domain filter: all of them when the selection is
\* empty or holds "All", else those whose domain is one of the selection
Available ==
    IF domain_choice = {} \/ ALL \in domain_choice THEN Len(df)
    ELSE Cardinality({i \in 1..Len(df) : df[i]["Domain"] \in domain_choice})

\* C5: prepare_items returns exactly min(count, available) items, available
\* being the number of records left after the domain filter.
C5_CountClamped ==
    op.name = "start_quiz" =>
        Len(items) = IF num_questions <= Available THEN num_questions ELSE Available

\* more asked for than the filter leaves, and the filter leaves some
C5_Witness ==
    /\ op.name = "start_quiz"
    /\ domain_choice = {ETHICS, COMMUNICATION}
    /\ Available = 1
    /\ Len(df) = 2
    /\ num_questions = 2
    /\ Len(items) = 1

\* the submissions so far that chose their item's correct display letter
CorrectSubmissions ==
    {i \in 1..Len(results) : results[i].chosen_label = <<items[i].correct_disp>>}

\* C6: in a started quiz, N submissions of which M choose the item's correct
\* display letter leave the score at exactly M, whichever they are.
C6_ScoreCountsCorrectSubmissions ==
    items # <<>> => score = Cardinality(CorrectSubmissions)

\* a finished quiz of two items, the first answered wrongly, the second right
C6_Witness ==
    /\ Len(items) = 2
    /\ index = 2
    /\ CorrectSubmissions = {2}
    /\ score = 1

\* C7 as stated: across start quiz, submit and restart the score changes
\* only on a submission, by +1, and is never decremented.
C7_ScoreChangesOnlyOnSubmit ==
    [][score' # score => (op'.name = "submit" /\ score' = score + 1)]_vars

\* C7 amended: the score changes only on a submission, by +1, or on start
\* quiz and restart, which set it back to 0.
C7_ScoreChangesOnSubmitOrReset ==
    [][score' # score =>
          \/ op'.name = "submit" /\ score' = score + 1
          \/ op'.name \in {"start_quiz", "restart_quiz"} /\ score' = 0]_vars

\* a finished quiz with two correct submissions, which Restart sets to 0
C7_Witness ==
    /\ Screen = "summary"
    /\ op.name = "submit"
    /\ score = 2

\* C8: every failure of the flag sink is answered with (False, message)
\* instead of an exception.
C8_FlagFailureIsSoft ==
    op.name = "flag" => op.ret # "raised"

\* C9: a submit with nothing selected changes none of items, index, score
\* and results; a submit with an option selected advances index by one and
\* appends one result, that of the current item, and leaves the items and
\* the earlier results as they were.
C9_SubmitAllOrNothing ==
    [][ /\ op'.name = "submit_empty" =>
              UNCHANGED <<items, index, score, results>>
        /\ op'.name = "submit" =>
              /\ index' = index + 1
              /\ items' = items
              /\ Len(results') = Len(results) + 1
              /\ SubSeq(results', 1, Len(results)) = results
              /\ results'[Len(results')].question = items[index + 1].row["Question"]
              /\ \E j \in 1..Len(items[index + 1].disp) :
                    /\ results'[Len(results')].chosen_label =
                           <<items[index + 1].disp[j].disp_lab>>
                    /\ results'[Len(results')].chosen_text =
                           items[index + 1].disp[j].text ]_vars

\* the second answer of a quiz has been submitted
C9_Witness ==
    /\ op.name = "submit"
    /\ index = 2
    /\ Len(results) = 2
    /\ results[2].chosen_label = <<"C">>

\* C10: 0 <= index <= number of items, as many results as index, score the
\* number of results marked correct, and the summary page exactly when there
\* are items and index is their number.
C10_SessionInvariant ==
    /\ 0 <= index /\ index <= Len(items)
    /\ Len(results) = index
    /\ score = Cardinality({i \in 1..Len(results) : results[i].is_correct = 1})
    /\ score <= index
    /\ Screen = "summary" <=> (items # <<>> /\ index = Len(items))

\* the summary page of a quiz with one right and one wrong answer
C10_Witness ==
    /\ Screen = "summary"
    /\ index = 2
    /\ score = 1
    /\ results[1].is_correct = 1
    /\ results[2].is_correct = 0

====
